---- MODULE Spec2Model ----
(***************************************************************************)
(* Model of the workout-app client state containers: the reducer-driven   *)
(* providers of the cardio, strength and nutrition sections, their        *)
(* optimistic flows (addWorkout / addEntry / updateEntry / removeEntry),  *)
(* their guarded context accessors (useCardioContext / useNutrition), the *)
(* AddWorkout form's submitting guard and the server's connectDB cache.   *)
(*                                                                         *)
(* Scheduling is the browser's: one JavaScript turn runs to completion, so *)
(* the synchronous prefix of an async function (up to its first await) is  *)
(* one action and each continuation after the await is one action.  A      *)
(* dispatch is applied to the reducer state in call order.                 *)
(***************************************************************************)
EXTENDS Integers, Sequences, FiniteSets, TLC

\* ---------------------------------------------------------------- bounds
MaxCalls == 2   \* coordinator calls (add, update, remove) started in one session
MaxClock == 2   \* distinct readings of Date.now() in one session
MaxInit  == 1   \* records handed over by the initial loader
MaxLen   == 3   \* length of the list a consumer builds by direct dispatches
MaxConnects == 4   \* connectDB calls made by the server actions

VARIABLES
    provider,   \* which provider component the page mounts
    state,      \* the useReducer state of that provider
    pending,    \* pending.current: the Set of optimistic ids (useRef)
    clock,      \* the current reading of Date.now()
    nextId,     \* the persistence layer's next fresh document id
    calls,      \* history: one entry per addWorkout/addEntry invocation
    access,     \* outcome of the last guarded-accessor call of a consumer
    ops,        \* history: one entry per updateEntry/removeEntry invocation
    props,      \* the initial list the page currently passes to the provider
    last,       \* history: the last action a consumer dispatched directly
    form,       \* the AddWorkout form: its submitting ref, the submits it ignored
    db          \* server: the connection cache, the attempts, the callers

vars == <<provider, state, pending, clock, nextId, calls, access, ops, props, last,
          form, db>>

\* ------------------------------------------------------------ components
\* "cardio" is the provider of app/cardio/types.ts, "cardioPlaceholder" the
\* component of app/cardio/CardioProvider.tsx, "strength" the provider of
\* app/strength/StrengthProvider.tsx, "nutrition" the NutritionProvider.
Providers == {"cardio", "cardioPlaceholder", "strength", "nutrition"}

\* the null default of createContext(null)
null == [isNull |-> TRUE]

\* error: null in the nutrition state
NoError == "null"

\* the payloads a form submits, told apart by their activity type
Data == {"running", "cycling"}

\* `temp-${Date.now()}`: the marker and the clock reading
TempId(t) == <<"temp", t>>

\* an ObjectId assigned by the persistence layer (never carries "temp-")
ServerId(n) == <<"srv", n>>

IsTentative(id) == id[1] = "temp"

\* { ...w, _id: tempId }; by is a history field: the invocation that built
\* the record (0: the initial loader).  No operation reads it.
Optimistic(d, tempId, c) == [id |-> tempId, data |-> d, by |-> c]

\* JSON.parse(JSON.stringify(newWorkout)): the payload under a fresh id
Created(d, n, c) == [id |-> ServerId(n), data |-> d, by |-> c]

\* the lists getCardioWorkouts / getNutritionEntries can return: persisted
\* records, each under its own document id
RECURSIVE LoaderList(_)
LoaderList(n) ==
    IF n = 0 THEN <<>>
    ELSE Append(LoaderList(n - 1),
                [id |-> ServerId(n), by |-> 0,
                 data |-> IF n % 2 = 1 THEN "running" ELSE "cycling"])

LoaderLists == {LoaderList(n) : n \in 0 .. MaxInit}

\* -------------------------------------------------------------- reducers
MapSeq(s, F(_)) == [i \in 1 .. Len(s) |-> F(s[i])]

FilterSeq(s, P(_)) == SelectSeq(s, P)

\* reducer with ADD appending at the back instead of the front
reducer_AddAtBack(st, action) ==
    CASE action.type = "SET" -> [workouts |-> action.payload]
      [] action.type = "ADD" -> [workouts |-> Append(st.workouts, action.payload)]
      [] action.type = "UPDATE" ->
            [workouts |-> MapSeq(st.workouts,
                LAMBDA w : IF w.id = action.payload.id THEN action.payload ELSE w)]
      [] action.type = "REMOVE" ->
            [workouts |-> FilterSeq(st.workouts, LAMBDA w : w.id # action.payload)]
      [] OTHER -> st

\* reducer with UPDATE inserting the record when no identifier matches
reducer_UpdateInserts(st, action) ==
    CASE action.type = "SET" -> [workouts |-> action.payload]
      [] action.type = "ADD" -> [workouts |-> <<action.payload>> \o st.workouts]
      [] action.type = "UPDATE" ->
            [workouts |->
                IF \E i \in DOMAIN st.workouts : st.workouts[i].id = action.payload.id
                THEN MapSeq(st.workouts,
                        LAMBDA w : IF w.id = action.payload.id THEN action.payload ELSE w)
                ELSE <<action.payload>> \o st.workouts]
      [] action.type = "REMOVE" ->
            [workouts |-> FilterSeq(st.workouts, LAMBDA w : w.id # action.payload)]
      [] OTHER -> st

\* s without the first of its elements with identifier id
RECURSIVE DropFirst(_, _)
DropFirst(s, id) ==
    IF s = <<>> THEN <<>>
    ELSE IF Head(s).id = id THEN Tail(s)
         ELSE <<Head(s)>> \o DropFirst(Tail(s), id)

\* reducer with REMOVE taking out only the first element with the identifier
reducer_RemoveFirstOnly(st, action) ==
    CASE action.type = "SET" -> [workouts |-> action.payload]
      [] action.type = "ADD" -> [workouts |-> <<action.payload>> \o st.workouts]
      [] action.type = "UPDATE" ->
            [workouts |-> MapSeq(st.workouts,
                LAMBDA w : IF w.id = action.payload.id THEN action.payload ELSE w)]
      [] action.type = "REMOVE" -> [workouts |-> DropFirst(st.workouts, action.payload)]
      [] OTHER -> st

\* cardio / strength reducer
reducer(st, action) ==
    CASE action.type = "SET" -> [workouts |-> action.payload]
      [] action.type = "ADD" -> [workouts |-> <<action.payload>> \o st.workouts]
      [] action.type = "UPDATE" ->
            [workouts |-> MapSeq(st.workouts,
                LAMBDA w : IF w.id = action.payload.id THEN action.payload ELSE w)]
      [] action.type = "REMOVE" ->
            [workouts |-> FilterSeq(st.workouts, LAMBDA w : w.id # action.payload)]
      [] OTHER -> st

\* a reducer call that threw (the render that runs it fails and the section
\* is torn down)
Threw == [threw |-> "TypeError"]

\* UPDATE_ENTRY reads action.payload._id once per element: a null payload
\* throws as soon as there is an element to visit
nutritionReducer(st, action) ==
    CASE st = Threw -> Threw
      [] action.type = "SET_ENTRIES" ->
            [st EXCEPT !.entries = action.payload, !.error = NoError]
      [] action.type = "ADD_ENTRY" ->
            [st EXCEPT !.entries = <<action.payload>> \o st.entries, !.error = NoError]
      [] action.type = "UPDATE_ENTRY" ->
            IF action.payload = null /\ st.entries # <<>>
            THEN Threw
            ELSE [st EXCEPT !.entries = MapSeq(st.entries,
                    LAMBDA e : IF e.id = action.payload.id THEN action.payload ELSE e),
                           !.error = NoError]
      [] action.type = "REMOVE_ENTRY" ->
            [st EXCEPT !.entries = FilterSeq(st.entries, LAMBDA e : e.id # action.payload),
                       !.error = NoError]
      [] action.type = "SET_LOADING" -> [st EXCEPT !.isLoading = action.payload]
      [] action.type = "SET_ERROR" ->
            [st EXCEPT !.error = action.payload, !.isLoading = FALSE]
      [] OTHER -> st

\* ------------------------------------------------------------- providers
NoState == [none |-> TRUE]

\* the record sequence a provider's state holds
Records(st) ==
    IF "workouts" \in DOMAIN st THEN st.workouts
    ELSE IF "entries" \in DOMAIN st THEN st.entries
    ELSE <<>>

\* useReducer(reducer, { workouts: initialWorkouts ?? [] })
\* (supplied = FALSE: the prop is undefined)
InitialState(p, supplied, initial) ==
    CASE p \in {"cardio", "strength"} ->
            [workouts |-> IF supplied THEN initial ELSE <<>>]
      [] p = "nutrition" ->
            [entries |-> IF supplied THEN initial ELSE <<>>,
             isLoading |-> FALSE, error |-> NoError]
      [] OTHER -> NoState

\* does the component render its children inside <Context.Provider value=...>
ProvidesContext(p) == p \in {"cardio", "nutrition"}

\* does the module the consumers import from export a guarded accessor
ExportsAccessor(p) == p \in {"cardio", "nutrition"}

\* the value handed to Context.Provider
ContextValue(p, st) ==
    IF p = "nutrition"
    THEN [state |-> st, dispatch |-> "dispatch", submit |-> "addEntry"]
    ELSE [state |-> st, dispatch |-> "dispatch", submit |-> "addWorkout"]

\* useContext(Ctx): the nearest provider's value, the default null otherwise
useContext(p, st, inside) ==
    IF inside /\ ProvidesContext(p) THEN ContextValue(p, st) ELSE null

\* the accessor without its null check
GuardedAccessor_Unguarded(p, st, inside) ==
    IF ~ExportsAccessor(p) THEN [threw |-> "TypeError"]
    ELSE [threw |-> "nothing", value |-> useContext(p, st, inside)]

\* useCardioContext / useNutrition as called by a consumer of section p
GuardedAccessor(p, st, inside) ==
    IF ~ExportsAccessor(p) THEN [threw |-> "TypeError"]
    ELSE LET ctx == useContext(p, st, inside)
         IN  IF ctx = null THEN [threw |-> "MissingProviderError"]
             ELSE [threw |-> "nothing", value |-> ctx]

Alive == state # Threw

\* no direct dispatch made yet
NoDispatch == [made |-> FALSE]

\* cached.conn / cached.promise holding null
Unset == 0

\* ------------------------------------------------------------------ init
Init ==
    /\ provider \in Providers
    /\ \E supplied \in BOOLEAN, initial \in LoaderLists :
          /\ supplied \/ initial = <<>>
          /\ props = [supplied |-> supplied, initial |-> initial]
          /\ state = InitialState(provider, supplied, initial)
          /\ nextId = Len(initial) + 1
    /\ pending = {}
    /\ clock = 1
    /\ calls = <<>>
    /\ access = [inside |-> FALSE, threw |-> "notCalled"]
    /\ ops = <<>>
    /\ last = NoDispatch
    /\ form = [submitting |-> FALSE, ignored |-> 0]
    /\ db = [conn |-> Unset, promise |-> Unset, attempts |-> <<>>, callers |-> <<>>,
             jobs |-> <<>>]

\* -------------------------------------------------------------- actions
\* Date.now() moves on
Tick ==
    /\ clock < MaxClock
    /\ clock' = clock + 1
    /\ UNCHANGED <<provider, state, pending, nextId, calls, access, ops, props, last, form, db>>

\* a consumer component renders and calls the guarded accessor
UseAccessor(inside) ==
    /\ access' = [inside |-> inside,
                  threw |-> GuardedAccessor(provider, state, inside).threw]
    /\ UNCHANGED <<provider, state, pending, clock, nextId, calls, ops, props, last, form, db>>

\* a consumer holds addWorkout/addEntry only through a successful accessor call
CanSubmit == Alive /\ access.inside /\ access.threw = "nothing"

InFlight(c) == Alive /\ c \in DOMAIN calls /\ calls[c].status = "inflight"

\* every other invocation has now seen activity during its flight
Disturb(cs, c) == [i \in DOMAIN cs |-> IF i = c THEN cs[i] ELSE [cs[i] EXCEPT !.quiet = FALSE]]

\* the same for the updateEntry / removeEntry invocations
DisturbOps(os, o) == [i \in DOMAIN os |-> IF i = o THEN os[i] ELSE [os[i] EXCEPT !.quiet = FALSE]]

\* history kept per invocation: the optimistic id and payload, the promise's
\* status, the record sequence before the call (pre), whether nothing else
\* has acted on the container since the call (quiet), the invocations that
\* were in flight when it started (with) and its effects in program order
\* (trace: the dispatches, the remote call "create", the rethrow "throw")
NewCall(tempId, d, effects) ==
    [tempId |-> tempId, data |-> d, status |-> "inflight", form |-> FALSE,
     pre |-> Records(state), quiet |-> TRUE,
     with |-> {i \in DOMAIN calls : calls[i].status = "inflight"},
     trace |-> effects]

\* invocation c settles with the given status after the given effects
Settle(cs, c, status, effects) ==
    [Disturb(cs, c) EXCEPT ![c].status = status, ![c].trace = @ \o effects]

\* handleSubmit's finally block: the continuation of the form's awaited
\* addWorkout call runs in the microtasks of the turn that settles the call
Release(f, call) == IF call.form THEN [f EXCEPT !.submitting = FALSE] ELSE f

\* addWorkout up to its await: ADD the optimistic record, remember the id,
\* issue the remote create call.  (StrengthProvider defines the same function
\* but hands it to no consumer: it provides no context.)
addWorkoutStart(d) ==
    /\ provider = "cardio"
    /\ CanSubmit
    /\ Len(calls) + Len(ops) < MaxCalls
    /\ LET tempId == TempId(clock)
           optimistic == Optimistic(d, tempId, Len(calls) + 1)
       IN  /\ state' = reducer(state, [type |-> "ADD", payload |-> optimistic])
           /\ pending' = pending \cup {tempId}
           /\ calls' = Append(Disturb(calls, 0), NewCall(tempId, d, <<"ADD", "create">>))
    /\ UNCHANGED <<provider, clock, nextId, access, ops, props, last, form, db>>

\* the remote create call resolved: UPDATE with the created record
addWorkoutResolve(c) ==
    /\ provider = "cardio"
    /\ InFlight(c)
    /\ LET created == Created(calls[c].data, nextId, c)
       IN  state' = reducer(state, [type |-> "UPDATE", payload |-> created])
    /\ pending' = pending \ {calls[c].tempId}
    /\ nextId' = nextId + 1
    /\ calls' = Settle(calls, c, "resolved", <<"UPDATE">>)
    /\ UNCHANGED <<provider, clock, access, ops, props, last, db>>
    /\ form' = Release(form, calls[c])

\* the catch block rethrowing before the REMOVE dispatch is made
addWorkoutReject_NoRollback(c) ==
    /\ provider = "cardio"
    /\ InFlight(c)
    /\ pending' = pending \ {calls[c].tempId}
    /\ calls' = Settle(calls, c, "rejected", <<"throw">>)
    /\ UNCHANGED <<provider, state, clock, nextId, access, ops, props, last, db>>
    /\ form' = Release(form, calls[c])

\* the catch block calling the remote create a second time before it rolls back
addWorkoutReject_Retries(c) ==
    /\ provider = "cardio"
    /\ InFlight(c)
    /\ state' = reducer(state, [type |-> "REMOVE", payload |-> calls[c].tempId])
    /\ pending' = pending \ {calls[c].tempId}
    /\ calls' = Settle(calls, c, "rejected", <<"create", "REMOVE", "throw">>)
    /\ UNCHANGED <<provider, clock, nextId, access, ops, props, last, db>>
    /\ form' = Release(form, calls[c])

\* the remote create call rejected: REMOVE the optimistic id, rethrow
addWorkoutReject(c) ==
    /\ provider = "cardio"
    /\ InFlight(c)
    /\ state' = reducer(state, [type |-> "REMOVE", payload |-> calls[c].tempId])
    /\ pending' = pending \ {calls[c].tempId}
    /\ calls' = Settle(calls, c, "rejected", <<"REMOVE", "throw">>)
    /\ UNCHANGED <<provider, clock, nextId, access, ops, props, last, db>>
    /\ form' = Release(form, calls[c])

\* addEntry up to its await
addEntryStart(d) ==
    /\ provider = "nutrition"
    /\ CanSubmit
    /\ Len(calls) + Len(ops) < MaxCalls
    /\ LET tempId == TempId(clock)
           optimisticEntry == Optimistic(d, tempId, Len(calls) + 1)
           s1 == nutritionReducer(state, [type |-> "ADD_ENTRY", payload |-> optimisticEntry])
           s2 == nutritionReducer(s1, [type |-> "SET_LOADING", payload |-> TRUE])
       IN  /\ state' = s2
           /\ calls' = Append(Disturb(calls, 0),
                              NewCall(tempId, d, <<"ADD_ENTRY", "SET_LOADING", "create">>))
    /\ ops' = DisturbOps(ops, 0)
    /\ UNCHANGED <<provider, pending, clock, nextId, access, props, last, form, db>>

\* createNutritionEntry resolved: UPDATE_ENTRY, then the finally block
addEntryResolve(c) ==
    /\ provider = "nutrition"
    /\ InFlight(c)
    /\ LET created == Created(calls[c].data, nextId, c)
           s1 == nutritionReducer(state, [type |-> "UPDATE_ENTRY", payload |-> created])
           s2 == nutritionReducer(s1, [type |-> "SET_LOADING", payload |-> FALSE])
       IN  state' = s2
    /\ nextId' = nextId + 1
    /\ calls' = Settle(calls, c, "resolved", <<"UPDATE_ENTRY", "SET_LOADING">>)
    /\ ops' = DisturbOps(ops, 0)
    /\ UNCHANGED <<provider, pending, clock, access, props, last, form, db>>

\* createNutritionEntry rejected: REMOVE_ENTRY, SET_ERROR, finally, rethrow
addEntryReject(c) ==
    /\ provider = "nutrition"
    /\ InFlight(c)
    /\ LET s1 == nutritionReducer(state, [type |-> "REMOVE_ENTRY", payload |-> calls[c].tempId])
           s2 == nutritionReducer(s1, [type |-> "SET_ERROR", payload |-> "message"])
           s3 == nutritionReducer(s2, [type |-> "SET_LOADING", payload |-> FALSE])
       IN  state' = s3
    /\ calls' = Settle(calls, c, "rejected",
                       <<"REMOVE_ENTRY", "SET_ERROR", "SET_LOADING", "throw">>)
    /\ ops' = DisturbOps(ops, 0)
    /\ UNCHANGED <<provider, pending, clock, nextId, access, props, last, form, db>>

\* ids a consumer can pass to updateEntry / removeEntry: those of the listed
\* entries and one of an entry that is not in the list
StaleId == ServerId(0)

KnownIds == {Records(state)[i].id : i \in DOMAIN Records(state)} \cup {StaleId}

\* a lookup that falls back on the first entry when no identifier matches
Find_FirstEntry(entries, id) ==
    IF \E i \in DOMAIN entries : entries[i].id = id
    THEN entries[CHOOSE i \in DOMAIN entries :
                    /\ entries[i].id = id
                    /\ \A j \in 1 .. i - 1 : entries[j].id # id]
    ELSE IF entries # <<>> THEN entries[1] ELSE null

\* state.entries.find(e => e._id === id): the first match, or null
Find(entries, id) ==
    IF \E i \in DOMAIN entries : entries[i].id = id
    THEN entries[CHOOSE i \in DOMAIN entries :
                    /\ entries[i].id = id
                    /\ \A j \in 1 .. i - 1 : entries[j].id # id]
    ELSE null

NewOp(kind, id, original, d, status, effects) ==
    [kind |-> kind, id |-> id, original |-> original, data |-> d,
     status |-> status, pre |-> state.entries, quiet |-> TRUE, trace |-> effects]

OpInFlight(o, kind) ==
    Alive /\ o \in DOMAIN ops /\ ops[o].kind = kind /\ ops[o].status = "inflight"

SettleOp(os, o, status, effects) ==
    [DisturbOps(os, o) EXCEPT ![o].status = status, ![o].trace = @ \o effects]

\* updateEntry up to its await (or to its early return)
updateEntryStart(id, d) ==
    /\ provider = "nutrition"
    /\ CanSubmit
    /\ Len(calls) + Len(ops) < MaxCalls
    /\ id \in KnownIds
    /\ LET original == Find(state.entries, id)
       IN  IF original = null
           THEN /\ ops' = Append(ops, NewOp("update", id, original, d, "returned", <<>>))
                /\ UNCHANGED <<state, calls>>
           ELSE LET merged == [original EXCEPT !.data = d]
                    s1 == nutritionReducer(state, [type |-> "UPDATE_ENTRY", payload |-> merged])
                    s2 == nutritionReducer(s1, [type |-> "SET_LOADING", payload |-> TRUE])
                IN  /\ state' = s2
                    /\ ops' = Append(DisturbOps(ops, 0),
                                     NewOp("update", id, original, d, "inflight",
                                           <<"UPDATE_ENTRY", "SET_LOADING", "update">>))
                    /\ calls' = Disturb(calls, 0)
    /\ UNCHANGED <<provider, pending, clock, nextId, access, props, last, form, db>>

\* updateNutritionEntry resolved with the updated document
updateEntryResolve(o) ==
    /\ OpInFlight(o, "update")
    /\ ~IsTentative(ops[o].id)
    /\ LET updated == [ops[o].original EXCEPT !.data = ops[o].data]
           s1 == nutritionReducer(state, [type |-> "UPDATE_ENTRY", payload |-> updated])
           s2 == nutritionReducer(s1, [type |-> "SET_LOADING", payload |-> FALSE])
       IN  state' = s2
    /\ ops' = SettleOp(ops, o, "resolved", <<"UPDATE_ENTRY", "SET_LOADING">>)
    /\ calls' = Disturb(calls, 0)
    /\ UNCHANGED <<provider, pending, clock, nextId, access, props, last, form, db>>

\* updateNutritionEntry found no document and resolved with null
updateEntryNotFound(o) ==
    /\ OpInFlight(o, "update")
    /\ ~IsTentative(ops[o].id)
    /\ LET s1 == nutritionReducer(state, [type |-> "UPDATE_ENTRY", payload |-> null])
           s2 == nutritionReducer(s1, [type |-> "SET_LOADING", payload |-> FALSE])
       IN  state' = s2
    /\ ops' = SettleOp(ops, o, "resolvedNull", <<"UPDATE_ENTRY", "SET_LOADING">>)
    /\ calls' = Disturb(calls, 0)
    /\ UNCHANGED <<provider, pending, clock, nextId, access, props, last, form, db>>

\* the catch block of updateEntry without its rollback dispatch
updateEntryReject_NoRestore(o) ==
    /\ OpInFlight(o, "update")
    /\ LET s2 == nutritionReducer(state, [type |-> "SET_ERROR", payload |-> "message"])
           s3 == nutritionReducer(s2, [type |-> "SET_LOADING", payload |-> FALSE])
       IN  state' = s3
    /\ ops' = SettleOp(ops, o, "rejected", <<"SET_ERROR", "SET_LOADING", "throw">>)
    /\ calls' = Disturb(calls, 0)
    /\ UNCHANGED <<provider, pending, clock, nextId, access, props, last, form, db>>

\* updateNutritionEntry rejected: UPDATE_ENTRY original, SET_ERROR, finally,
\* rethrow
updateEntryReject(o) ==
    /\ OpInFlight(o, "update")
    /\ LET s1 == nutritionReducer(state, [type |-> "UPDATE_ENTRY", payload |-> ops[o].original])
           s2 == nutritionReducer(s1, [type |-> "SET_ERROR", payload |-> "message"])
           s3 == nutritionReducer(s2, [type |-> "SET_LOADING", payload |-> FALSE])
       IN  state' = s3
    /\ ops' = SettleOp(ops, o, "rejected",
                       <<"UPDATE_ENTRY", "SET_ERROR", "SET_LOADING", "throw">>)
    /\ calls' = Disturb(calls, 0)
    /\ UNCHANGED <<provider, pending, clock, nextId, access, props, last, form, db>>

\* removeEntry up to its await (or to its early return)
removeEntryStart(id) ==
    /\ provider = "nutrition"
    /\ CanSubmit
    /\ Len(calls) + Len(ops) < MaxCalls
    /\ id \in KnownIds
    /\ LET original == Find(state.entries, id)
       IN  IF original = null
           THEN /\ ops' = Append(ops, NewOp("remove", id, original, "none", "returned", <<>>))
                /\ UNCHANGED <<state, calls>>
           ELSE LET s1 == nutritionReducer(state, [type |-> "REMOVE_ENTRY", payload |-> id])
                    s2 == nutritionReducer(s1, [type |-> "SET_LOADING", payload |-> TRUE])
                IN  /\ state' = s2
                    /\ ops' = Append(DisturbOps(ops, 0),
                                     NewOp("remove", id, original, "none", "inflight",
                                           <<"REMOVE_ENTRY", "SET_LOADING", "delete">>))
                    /\ calls' = Disturb(calls, 0)
    /\ UNCHANGED <<provider, pending, clock, nextId, access, props, last, form, db>>

\* deleteNutritionEntry resolved: only the finally block runs
removeEntryResolve(o) ==
    /\ OpInFlight(o, "remove")
    /\ ~IsTentative(ops[o].id)
    /\ state' = nutritionReducer(state, [type |-> "SET_LOADING", payload |-> FALSE])
    /\ ops' = SettleOp(ops, o, "resolved", <<"SET_LOADING">>)
    /\ calls' = Disturb(calls, 0)
    /\ UNCHANGED <<provider, pending, clock, nextId, access, props, last, form, db>>

\* the catch block of removeEntry without its restoring dispatch
removeEntryReject_NoRestore(o) ==
    /\ OpInFlight(o, "remove")
    /\ LET s2 == nutritionReducer(state, [type |-> "SET_ERROR", payload |-> "message"])
           s3 == nutritionReducer(s2, [type |-> "SET_LOADING", payload |-> FALSE])
       IN  state' = s3
    /\ ops' = SettleOp(ops, o, "rejected", <<"SET_ERROR", "SET_LOADING", "throw">>)
    /\ calls' = Disturb(calls, 0)
    /\ UNCHANGED <<provider, pending, clock, nextId, access, props, last, form, db>>

\* deleteNutritionEntry rejected: ADD_ENTRY original, SET_ERROR, finally,
\* rethrow
removeEntryReject(o) ==
    /\ OpInFlight(o, "remove")
    /\ LET s1 == nutritionReducer(state, [type |-> "ADD_ENTRY", payload |-> ops[o].original])
           s2 == nutritionReducer(s1, [type |-> "SET_ERROR", payload |-> "message"])
           s3 == nutritionReducer(s2, [type |-> "SET_LOADING", payload |-> FALSE])
       IN  state' = s3
    /\ ops' = SettleOp(ops, o, "rejected",
                       <<"ADD_ENTRY", "SET_ERROR", "SET_LOADING", "throw">>)
    /\ calls' = Disturb(calls, 0)
    /\ UNCHANGED <<provider, pending, clock, nextId, access, props, last, form, db>>

Next ==
    \/ Tick
    \/ \E inside \in BOOLEAN : UseAccessor(inside)
    \/ \E d \in Data : addWorkoutStart(d)
    \/ \E c \in 1 .. MaxCalls : addWorkoutResolve(c)
    \/ \E c \in 1 .. MaxCalls : addWorkoutReject(c)
    \/ \E d \in Data : addEntryStart(d)
    \/ \E c \in 1 .. MaxCalls : addEntryResolve(c)
    \/ \E c \in 1 .. MaxCalls : addEntryReject(c)
    \/ \E id \in KnownIds, d \in Data : updateEntryStart(id, d)
    \/ \E o \in 1 .. MaxCalls : updateEntryResolve(o)
    \/ \E o \in 1 .. MaxCalls : updateEntryNotFound(o)
    \/ \E o \in 1 .. MaxCalls : updateEntryReject(o)
    \/ \E id \in KnownIds : removeEntryStart(id)
    \/ \E o \in 1 .. MaxCalls : removeEntryResolve(o)
    \/ \E o \in 1 .. MaxCalls : removeEntryReject(o)

Spec == Init /\ [][Next]_vars

\* ------------------------------------------------------ the AddWorkout form
\* the call the form makes: addWorkout up to its await
FormCall(d) ==
    LET tempId == TempId(clock)
        optimistic == Optimistic(d, tempId, Len(calls) + 1)
    IN  /\ state' = reducer(state, [type |-> "ADD", payload |-> optimistic])
        /\ pending' = pending \cup {tempId}
        /\ calls' = Append(Disturb(calls, 0),
                           [NewCall(tempId, d, <<"ADD", "create">>) EXCEPT !.form = TRUE])

\* handleSubmit without the test of the submitting ref
handleSubmit_NoGuard(d) ==
    /\ provider = "cardio"
    /\ CanSubmit
    /\ Len(calls) + Len(ops) < MaxCalls
    /\ form' = [form EXCEPT !.submitting = TRUE]
    /\ FormCall(d)
    /\ UNCHANGED <<provider, clock, nextId, access, ops, props, last, db>>

\* a submit event of the form: ignored while submitting.current is set,
\* otherwise the ref is set and addWorkout is called
handleSubmit(d) ==
    /\ provider = "cardio"
    /\ CanSubmit
    /\ IF form.submitting
       THEN /\ form.ignored < MaxCalls
            /\ form' = [form EXCEPT !.ignored = @ + 1]
            /\ UNCHANGED <<state, pending, calls>>
       ELSE /\ Len(calls) + Len(ops) < MaxCalls
            /\ form' = [form EXCEPT !.submitting = TRUE]
            /\ FormCall(d)
    /\ UNCHANGED <<provider, clock, nextId, access, ops, props, last, db>>

NextForm ==
    \/ Tick
    \/ \E inside \in BOOLEAN : UseAccessor(inside)
    \/ \E d \in Data : handleSubmit(d)
    \/ \E d \in Data : addWorkoutStart(d)
    \/ \E c \in 1 .. MaxCalls : addWorkoutResolve(c)
    \/ \E c \in 1 .. MaxCalls : addWorkoutReject(c)

SpecForm == Init /\ [][NextForm]_vars

\* ------------------------------------------------------------- connectDB
\* The server runs one turn at a time.  A settled promise queues the
\* continuations of the callers awaiting it, in the order they began to
\* await (db.jobs), and the queue drains before the next request's turn, so
\* connectDB is called and a connection attempt settles only when no
\* continuation is queued.  cached.conn and cached.promise hold the number of
\* the attempt they come from, or Unset for null.
Attempting(a) == a \in DOMAIN db.attempts /\ db.attempts[a] = "pending"

\* a caller record: the attempt it awaits (on), whether it invoked
\* mongoose.connect (started), what the cache held when it called (hadConn,
\* hadPromise), how it ended (result, got)
Caller(on, started, result, got) ==
    [on |-> on, started |-> started, result |-> result, got |-> got,
     hadConn |-> db.conn, hadPromise |-> db.promise]

\* connectDB starting an attempt of its own whenever no connection is cached
connectDB_NoPromiseCache ==
    /\ db.jobs = <<>>
    /\ Len(db.callers) < MaxConnects
    /\ IF db.conn # Unset
       THEN db' = [db EXCEPT !.callers = Append(@, Caller(Unset, FALSE, "returned", db.conn))]
       ELSE LET a == Len(db.attempts) + 1
            IN  db' = [db EXCEPT !.attempts = Append(@, "pending"),
                                 !.promise = a,
                                 !.callers = Append(@, Caller(a, TRUE, "awaiting", Unset))]
    /\ UNCHANGED <<provider, state, pending, clock, nextId, calls, access, ops, props, last, form>>

\* connectDB up to its await (or to its early return)
connectDB ==
    /\ db.jobs = <<>>
    /\ Len(db.callers) < MaxConnects
    /\ IF db.conn # Unset
       THEN db' = [db EXCEPT !.callers = Append(@, Caller(Unset, FALSE, "returned", db.conn))]
       ELSE IF db.promise = Unset
            THEN LET a == Len(db.attempts) + 1
                 IN  db' = [db EXCEPT !.attempts = Append(@, "pending"),
                                      !.promise = a,
                                      !.callers = Append(@, Caller(a, TRUE, "awaiting", Unset))]
            ELSE db' = [db EXCEPT !.callers =
                                      Append(@, Caller(db.promise, FALSE, "awaiting", Unset))]
    /\ UNCHANGED <<provider, state, pending, clock, nextId, calls, access, ops, props, last, form>>

\* the callers awaiting attempt a, in the order of their calls
RECURSIVE Waiters(_, _)
Waiters(a, k) ==
    IF k > Len(db.callers) THEN <<>>
    ELSE IF db.callers[k].result = "awaiting" /\ db.callers[k].on = a
         THEN <<k>> \o Waiters(a, k + 1)
         ELSE Waiters(a, k + 1)

\* mongoose.connect settles: the continuations of its waiters are queued
connectSettles(a, outcome) ==
    /\ db.jobs = <<>>
    /\ Attempting(a)
    /\ db' = [db EXCEPT !.attempts[a] = outcome, !.jobs = Waiters(a, 1)]
    /\ UNCHANGED <<provider, state, pending, clock, nextId, calls, access, ops, props, last, form>>

\* a continuation whose catch block leaves the cached promise in place
resume_NoReset ==
    /\ db.jobs # <<>>
    /\ LET k == Head(db.jobs)
           a == db.callers[k].on
       IN  IF db.attempts[a] = "resolved"
           THEN db' = [db EXCEPT !.conn = a,
                                 !.callers[k].result = "returned",
                                 !.callers[k].got = a,
                                 !.jobs = Tail(@)]
           ELSE db' = [db EXCEPT !.callers[k].result = "threw",
                                 !.jobs = Tail(@)]
    /\ UNCHANGED <<provider, state, pending, clock, nextId, calls, access, ops, props, last, form>>

\* the continuation of the first queued caller: cached.conn is set and
\* returned, or cached.promise is reset and the error rethrown
resume ==
    /\ db.jobs # <<>>
    /\ LET k == Head(db.jobs)
           a == db.callers[k].on
       IN  IF db.attempts[a] = "resolved"
           THEN db' = [db EXCEPT !.conn = a,
                                 !.callers[k].result = "returned",
                                 !.callers[k].got = a,
                                 !.jobs = Tail(@)]
           ELSE db' = [db EXCEPT !.promise = Unset,
                                 !.callers[k].result = "threw",
                                 !.jobs = Tail(@)]
    /\ UNCHANGED <<provider, state, pending, clock, nextId, calls, access, ops, props, last, form>>

NextDB ==
    \/ connectDB
    \/ \E a \in 1 .. MaxConnects, outcome \in {"resolved", "rejected"} : connectSettles(a, outcome)
    \/ resume

SpecDB == Init /\ [][NextDB]_vars

\* ------------------------------------------- direct dispatches, re-renders
\* records a consumer passes as the payload of ADD / UPDATE
PayloadIds == {ServerId(1), ServerId(2), TempId(1)}

Payloads == [id : PayloadIds, data : Data, by : {0}]

HasDispatch == provider \in {"cardio", "nutrition"}

\* the action type of each reducer for a kind of transition
TypeOf(p, kind) ==
    CASE kind = "set"    -> IF p = "nutrition" THEN "SET_ENTRIES" ELSE "SET"
      [] kind = "add"    -> IF p = "nutrition" THEN "ADD_ENTRY" ELSE "ADD"
      [] kind = "update" -> IF p = "nutrition" THEN "UPDATE_ENTRY" ELSE "UPDATE"
      [] kind = "remove" -> IF p = "nutrition" THEN "REMOVE_ENTRY" ELSE "REMOVE"
      [] OTHER           -> "UNKNOWN"

\* the provider's reducer applied to its state
Reduce(p, st, action) ==
    IF p = "nutrition" THEN nutritionReducer(st, action) ELSE reducer(st, action)

Dispatched(kind, payload) ==
    [made |-> TRUE, before |-> state, kind |-> kind, payload |-> payload]

\* a consumer calls the dispatch of the context value
Dispatch(kind, payload) ==
    /\ HasDispatch
    /\ state' = Reduce(provider, state, [type |-> TypeOf(provider, kind), payload |-> payload])
    /\ last' = Dispatched(kind, payload)
    /\ UNCHANGED <<provider, pending, clock, nextId, calls, access, ops, props, form, db>>

DispatchSet(list) == Dispatch("set", list)

DispatchAdd(record) == Len(Records(state)) < MaxLen /\ Dispatch("add", record)

DispatchUpdate(record) == Dispatch("update", record)

DispatchRemove(id) == Dispatch("remove", id)

DispatchUnknown == Dispatch("unknown", "none")

\* a re-render that seeds the state again from the list it is passed
Rerender_Reseeds(supplied, initial) ==
    /\ supplied \/ initial = <<>>
    /\ props' = [supplied |-> supplied, initial |-> initial]
    /\ props' # props
    /\ state' = InitialState(provider, supplied, initial)
    /\ UNCHANGED <<provider, pending, clock, nextId, calls, access, ops, last, form, db>>

\* the page renders the provider again with another initial list: useReducer
\* ignores its initial-state argument after the first render
Rerender(supplied, initial) ==
    /\ supplied \/ initial = <<>>
    /\ props' = [supplied |-> supplied, initial |-> initial]
    /\ props' # props
    /\ UNCHANGED <<provider, state, pending, clock, nextId, calls, access, ops, last, form, db>>

NextContainer ==
    \/ \E list \in LoaderLists : DispatchSet(list)
    \/ \E record \in Payloads : DispatchAdd(record)
    \/ \E record \in Payloads : DispatchUpdate(record)
    \/ \E id \in PayloadIds : DispatchRemove(id)
    \/ DispatchUnknown
    \/ \E supplied \in BOOLEAN, initial \in LoaderLists : Rerender(supplied, initial)

SpecContainer == Init /\ [][NextContainer]_vars

\* ---------------------------------------------------------------- claims
R == Records(state)

Called == DOMAIN calls

Resolved(c) == calls[c].status = "resolved"

Rejected(c) == calls[c].status = "rejected"

\* the records of sequence s that invocation c brought into the container
Of(s, c) == {i \in DOMAIN s : s[i].by = c}

HasTentative(s, c) == \E i \in Of(s, c) : IsTentative(s[i].id)

HasConfirmed(s, c) == \E i \in Of(s, c) : ~IsTentative(s[i].id)

Overlap(a, b) == a \in calls[b].with \/ b \in calls[a].with

\* effect a comes before effect b in trace t
Precedes(t, a, b) == \E i, j \in DOMAIN t : i < j /\ t[i] = a /\ t[j] = b

Adds == {"ADD", "ADD_ENTRY"}

Removes == {"REMOVE", "REMOVE_ENTRY"}

\* the step in which invocation c's remote call resolves / rejects
ResolveStep(c) == c \in Called /\ InFlight(c) /\ calls'[c].status = "resolved"

RejectStep(c) == c \in Called /\ InFlight(c) /\ calls'[c].status = "rejected"

\* C1: when the remote create call of a submit resolves with record r, the
\* tentative record is gone from State and r sits at the position the
\* tentative record occupied.
C1_ReplacedInPlace ==
    [][\A c \in 1 .. MaxCalls : ResolveStep(c) =>
          /\ ~HasTentative(Records(state'), c)
          /\ \A i \in Of(R, c) :
                /\ i \in DOMAIN Records(state')
                /\ Records(state')[i].by = c
                /\ Records(state')[i].data = calls[c].data
                /\ ~IsTentative(Records(state')[i].id)]_vars

\* C2: when the remote create call of a submit rejects, State holds no
\* tentative record of that submit, the tentative id has left the Pending
\* set, and with no other activity since the submit the record sequence
\* equals its pre-submit contents.
C2_RollbackRestores ==
    \A c \in Called : (Rejected(c) /\ calls[c].quiet) =>
        /\ ~HasTentative(R, c)
        /\ calls[c].tempId \notin pending
        /\ R = calls[c].pre

\* C3: of two submits in flight together with distinct payloads, one resolved
\* and one rejected, State ends with exactly the server-confirmed record of
\* the first and nothing of the second.
C3_Independent ==
    \A a, b \in Called :
        (a # b /\ Overlap(a, b) /\ calls[a].data # calls[b].data
              /\ Resolved(a) /\ Rejected(b)) =>
            /\ Cardinality(Of(R, a)) = 1
            /\ HasConfirmed(R, a)
            /\ ~HasTentative(R, a)
            /\ Of(R, b) = {}

\* C4: State never contains two records with the same identifier.
C4_UniqueIds ==
    \A i, j \in DOMAIN R : R[i].id = R[j].id => i = j

\* C5: the tentative identifiers of two submits of one session differ.
C5_TempIdsDistinct ==
    \A a, b \in Called : a # b => calls[a].tempId # calls[b].tempId

\* C6: once submit(payload) has been called, and before its promise settles,
\* the first element of State is a record with the payload's fields under an
\* identifier carrying the tentative marker: the ADD is applied by the time
\* the remote call is in flight (and the record stays in front until another
\* invocation acts on the container).
C6_OptimisticFirst ==
    \A c \in Called : (InFlight(c) /\ calls[c].quiet) =>
        /\ Len(R) = Len(calls[c].pre) + 1
        /\ R[1].by = c
        /\ R[1].data = calls[c].data
        /\ IsTentative(R[1].id)
        /\ \E a \in Adds : Precedes(calls[c].trace, a, "create")

C6_Witness ==
    \E c \in Called : InFlight(c) /\ calls[c].quiet /\ calls[c].pre # <<>>
                        /\ R[1].by = c /\ IsTentative(R[1].id)

\* C7: in the step that surfaces a failed remote create to the caller (the
\* promise rejects), the rollback has been applied: the State the caller can
\* observe holds no record of the failed optimistic insertion.
C7_RollbackBeforeSurfacing ==
    [][\A c \in 1 .. MaxCalls : RejectStep(c) =>
          /\ Of(Records(state'), c) = {}
          /\ \E r \in Removes : Precedes(calls'[c].trace, r, "throw")]_vars

C7_Witness ==
    \E c \in Called : Rejected(c) /\ Of(R, c) = {} /\ R # <<>>

\* C8: the tentative record of a submit and its confirmed record are never
\* both in State, and across a successful submit (nothing else acting) the
\* record sequence has grown by exactly one element.
C8_NeverBoth ==
    \A c \in Called :
        /\ ~(HasTentative(R, c) /\ HasConfirmed(R, c))
        /\ (Resolved(c) /\ calls[c].quiet) => Len(R) = Len(calls[c].pre) + 1

C8_Witness ==
    \E c \in Called : Resolved(c) /\ calls[c].quiet /\ Len(R) = Len(calls[c].pre) + 1

\* C9: useCardioContext / useNutrition called with no enclosing provider
\* throws the missing-provider error, and the call changes nothing in the
\* State Container.
C9_MissingProvider ==
    [][(access' # access /\ ~access'.inside /\ provider \in {"cardio", "nutrition"}) =>
          /\ access'.threw = "MissingProviderError"
          /\ UNCHANGED <<state, pending, calls, nextId>>]_vars

C9_Witness ==
    /\ provider \in {"cardio", "nutrition"}
    /\ ~access.inside
    /\ access.threw = "MissingProviderError"
    /\ calls # <<>>

\* C10: in every category a consumer rendered below the category's provider
\* gets from the guarded accessor the value whose state is the provider's
\* current reducer state; the accessor does not fail for it.
C10_DescendantGetsValue ==
    access.inside =>
        /\ access.threw = "nothing"
        /\ GuardedAccessor(provider, state, TRUE).value.state = state

\* C12: the reducer never throws for any State and any action a coordinator
\* flow dispatches, the UPDATE with a null payload after a remote update that
\* found no document included.
C12_ReducerNeverThrows == state # Threw

\* only submit calls have acted on the list: every updateEntry / removeEntry
\* call returned at once
OnlySubmits == \A o \in DOMAIN ops : ops[o].status = "returned"

\* the remote call of submit c can settle now, either way
CanSettle(c) ==
    /\ ENABLED (addWorkoutResolve(c) \/ addEntryResolve(c))
    /\ ENABLED (addWorkoutReject(c) \/ addEntryReject(c))

\* C17: while two submit calls are in flight (and only submits have acted),
\* the record of the later call, where both are listed, is nearer the front
\* than the record of the earlier one, and each of the two remote calls can resolve or reject at
\* once, whatever the state of the other.
C17_LaterNearerFront ==
    \A a, b \in Called :
        (a < b /\ InFlight(a) /\ InFlight(b) /\ OnlySubmits) =>
            /\ \A i \in Of(R, b), j \in Of(R, a) : i < j
            /\ CanSettle(a) /\ CanSettle(b)

C17_Witness ==
    \E a, b \in Called :
        /\ a < b /\ InFlight(a) /\ InFlight(b) /\ OnlySubmits
        /\ calls[a].tempId # calls[b].tempId
        /\ \E i \in Of(R, b), j \in Of(R, a) : i < j /\ IsTentative(R[i].id) /\ IsTentative(R[j].id)

Operated == DOMAIN ops

\* the step in which removeEntry / updateEntry call o runs up to its await
OpStartStep(o, kind) ==
    /\ o \notin DOMAIN ops /\ o \in DOMAIN ops'
    /\ ops'[o].kind = kind /\ ops'[o].status = "inflight"

\* the step in which the remote call of o rejects
OpRejectStep(o, kind) == OpInFlight(o, kind) /\ ops'[o].status = "rejected"

HasId(s, id) == \E i \in DOMAIN s : s[i].id = id

\* C18: removeEntry(id) of a listed entry takes it out of the list before
\* the remote delete is issued; when the remote delete rejects, the entry is
\* in the list again before the error is rethrown to the caller.
C18_RemoveThenRestore ==
    [][\A o \in 1 .. MaxCalls :
          /\ OpStartStep(o, "remove") =>
                /\ HasId(Records(state), ops'[o].id)
                /\ ~HasId(Records(state'), ops'[o].id)
                /\ Precedes(ops'[o].trace, "REMOVE_ENTRY", "delete")
          /\ OpRejectStep(o, "remove") =>
                /\ \E i \in DOMAIN Records(state') : Records(state')[i] = ops[o].original
                /\ Precedes(ops'[o].trace, "ADD_ENTRY", "throw")]_vars

C18_Witness ==
    \E o \in Operated :
        /\ ops[o].kind = "remove" /\ ops[o].status = "rejected"
        /\ \E i \in DOMAIN R : R[i] = ops[o].original

\* C19: updateEntry(id, data) of a listed entry puts the merged entry in the
\* list before the remote update is issued; when the remote update rejects,
\* every entry with that id has the value found when updateEntry was called
\* (and there is one, if nothing else happened meanwhile), before the error
\* is rethrown.
C19_UpdateThenRestore ==
    [][\A o \in 1 .. MaxCalls :
          /\ OpStartStep(o, "update") =>
                /\ HasId(Records(state'), ops'[o].id)
                /\ \A i \in DOMAIN Records(state') :
                      Records(state')[i].id = ops'[o].id =>
                          Records(state')[i] = [ops'[o].original EXCEPT !.data = ops'[o].data]
                /\ Precedes(ops'[o].trace, "UPDATE_ENTRY", "update")
          /\ OpRejectStep(o, "update") =>
                /\ ops[o].quiet => HasId(Records(state'), ops[o].id)
                /\ \A i \in DOMAIN Records(state') :
                      Records(state')[i].id = ops[o].id => Records(state')[i] = ops[o].original
                /\ Precedes(ops'[o].trace, "UPDATE_ENTRY", "throw")]_vars

C19_Witness ==
    \E o \in Operated :
        /\ ops[o].kind = "update" /\ ops[o].status = "rejected"
        /\ ops[o].original.data # ops[o].data
        /\ \E i \in DOMAIN R : R[i] = ops[o].original

\* the list before and after the last direct dispatch
Before == Records(last.before)

LastWas(kind) == last.made /\ last.kind = kind

\* C13: ADD(record) gives a list whose first element is record, followed by
\* the previous elements in their previous order; the length grows by one.
C13_AddPrepends ==
    LastWas("add") =>
        /\ Len(R) = Len(Before) + 1
        /\ R[1] = last.payload
        /\ \A i \in DOMAIN Before : R[i + 1] = Before[i]

C13_Witness == LastWas("add") /\ Len(Before) >= 2 /\ R[1] = last.payload

\* C14: UPDATE(record) puts record at the position of the element with the
\* same id and leaves every other element and the order as they were; with
\* no such element the list is unchanged.
C14_UpdateInPlace ==
    LastWas("update") =>
        /\ Len(R) = Len(Before)
        /\ \A i \in DOMAIN Before :
              R[i] = IF Before[i].id = last.payload.id THEN last.payload ELSE Before[i]
        /\ ~HasId(Before, last.payload.id) => R = Before

C14_Witness ==
    /\ LastWas("update") /\ Len(Before) >= 2
    /\ \E i \in DOMAIN Before :
          Before[i].id = last.payload.id /\ Before[i] # last.payload /\ R[i] = last.payload

\* list s without its elements of identifier id
RECURSIVE Without(_, _)
Without(s, id) ==
    IF s = <<>> THEN <<>>
    ELSE IF Head(s).id = id THEN Without(Tail(s), id)
         ELSE <<Head(s)>> \o Without(Tail(s), id)

\* C15: REMOVE(id) takes the element with identifier id out of the list and
\* keeps the others in their order; with no such element the list is
\* unchanged.
C15_RemoveKeepsOthers ==
    LastWas("remove") =>
        /\ ~HasId(R, last.payload)
        /\ R = Without(Before, last.payload)
        /\ ~HasId(Before, last.payload) => R = Before

C15_Witness ==
    /\ LastWas("remove") /\ Len(Before) >= 3
    /\ Before[2].id = last.payload
    /\ R = <<Before[1], Before[3]>>

\* the component holds a reducer state
HoldsState == state # NoState

\* C16: a component that holds state is seeded once, at creation, with the
\* list the initial loader supplies, in its order (the empty list when none
\* is supplied), and a later change of the supplied list leaves the state as
\* it is.
C16_SeededOnce ==
    /\ HoldsState => Records(state) = (IF props.supplied THEN props.initial ELSE <<>>)
    /\ [][props' # props => state' = state]_vars

C16_Witness ==
    /\ props.supplied /\ props.initial # <<>>
    /\ Records(state) # props.initial
    /\ ~last.made
    /\ HoldsState

\* the identifiers of the tentative records in the list
TentativeIds == {R[i].id : i \in {j \in DOMAIN R : IsTentative(R[j].id)}}

\* C21: in every reachable state of a provider that keeps a Pending set, a
\* tentative identifier is in Pending if and only if a record with that
\* identifier is in State.
C21_PendingIsTentative ==
    provider \in {"cardio", "strength"} => pending = TentativeIds

Updates == {"UPDATE", "UPDATE_ENTRY"}

\* the record-sequence dispatches and remote create calls of a trace, in order
RecordEffects(t) == SelectSeq(t, LAMBDA x : x \in Adds \cup Updates \cup Removes \cup {"create"})

\* C22: a submit makes one remote create call and two record-sequence
\* dispatches: ADD before the call, then UPDATE if the call resolves or
\* REMOVE if it rejects.
C22_OneCallTwoDispatches ==
    \A c \in Called :
        \E a \in Adds :
            /\ calls[c].status = "inflight" => RecordEffects(calls[c].trace) = <<a, "create">>
            /\ calls[c].status = "resolved" =>
                  \E u \in Updates : RecordEffects(calls[c].trace) = <<a, "create", u>>
            /\ calls[c].status = "rejected" =>
                  \E r \in Removes : RecordEffects(calls[c].trace) = <<a, "create", r>>

C22_Witness ==
    \E a, b \in Called :
        /\ Resolved(a) /\ Rejected(b)
        /\ Len(RecordEffects(calls[a].trace)) = 3 /\ Len(RecordEffects(calls[b].trace)) = 3

\* C23: at most one remote create call is in flight per tentative identifier
\* of the Pending set.
C23_OneInFlightPerTempId ==
    provider = "cardio" =>
        \A id \in pending :
            Cardinality({c \in Called : InFlight(c) /\ calls[c].tempId = id}) <= 1

\* C26: after a removeEntry whose remote delete rejects, with no other
\* operation in between, the entries are the sequence before the call.
C26_RestoredInPlace ==
    [][\A o \in 1 .. MaxCalls :
          (OpRejectStep(o, "remove") /\ ops[o].quiet) => Records(state') = ops[o].pre]_vars

\* a remote call of the nutrition provider is awaited
AnyInFlight ==
    \/ \E c \in Called : calls[c].status = "inflight"
    \/ \E o \in Operated : ops[o].status = "inflight"

\* C27: in the nutrition provider isLoading is true exactly while at least
\* one addEntry, updateEntry or removeEntry remote call is in flight.
C27_LoadingWhileInFlight ==
    (provider = "nutrition" /\ Alive) => (state.isLoading <=> AnyInFlight)

\* the value the server confirmed for update call o
Confirmed(o) == [ops[o].original EXCEPT !.data = ops[o].data]

\* C28: when an updateEntry fails after a later updateEntry on the same entry
\* was confirmed, the entry keeps the confirmed value of the later call.
C28_RollbackKeepsConfirmed ==
    [][\A o1, o2 \in 1 .. MaxCalls :
          ( /\ o1 < o2 /\ o2 \in Operated
            /\ OpRejectStep(o1, "update")
            /\ ops[o2].kind = "update" /\ ops[o2].id = ops[o1].id
            /\ ops[o2].status = "resolved" ) =>
                \A i \in DOMAIN Records(state') :
                    Records(state')[i].id = ops[o1].id => Records(state')[i] = Confirmed(o2)]_vars

\* the step in which an updateEntry / removeEntry call is made with an id
\* that no entry carries
AbsentIdStep(o) ==
    /\ o \notin DOMAIN ops /\ o \in DOMAIN ops'
    /\ ~HasId(Records(state), ops'[o].id)

\* C30: updateEntry and removeEntry called with an id that no entry carries
\* make no remote call and no dispatch, leave State as it is and return.
C30_AbsentIdNoEffect ==
    [][\A o \in 1 .. MaxCalls :
          AbsentIdStep(o) =>
              /\ state' = state
              /\ ops'[o].trace = <<>>
              /\ ops'[o].status = "returned"]_vars

C30_Witness ==
    /\ R # <<>>
    /\ \E o \in Operated :
          ops[o].status = "returned" /\ ~HasId(ops[o].pre, ops[o].id) /\ R = ops[o].pre

\* the form's addWorkout calls that are in flight
FormInFlight == {c \in Called : calls[c].form /\ InFlight(c)}

\* C29: at most one addWorkout call of the form is in flight; the submitting
\* guard is set exactly while that call is unsettled, so it is released when
\* the call resolves and when it rejects; a submit event that arrives while
\* the guard is set makes no dispatch and no remote call.
C29_OneSubmissionPerForm ==
    /\ [](Cardinality(FormInFlight) <= 1 /\ (form.submitting <=> FormInFlight # {}))
    /\ [][form'.ignored # form.ignored =>
             (form.submitting /\ UNCHANGED <<state, pending, calls>>)]_vars

C29_Witness ==
    /\ form.ignored > 0
    /\ \E a, b \in Called :
          /\ a < b /\ calls[a].form /\ calls[b].form
          /\ Rejected(a) /\ InFlight(b) /\ form.submitting

Connecting == {a \in DOMAIN db.attempts : db.attempts[a] = "pending"}

Callers == DOMAIN db.callers

Queued == {db.jobs[i] : i \in DOMAIN db.jobs}

\* C24: connectDB never has two connection attempts in progress; a call made
\* while an attempt is unsettled awaits that attempt and does not invoke
\* mongoose.connect; a call made once a connection is cached returns it and
\* does not invoke mongoose.connect.
C24_OneAttemptAtATime ==
    /\ Cardinality(Connecting) <= 1
    /\ \A k \in Callers :
          /\ db.callers[k].started =>
                (db.callers[k].hadConn = Unset /\ db.callers[k].hadPromise = Unset)
          /\ (db.callers[k].hadConn = Unset /\ db.callers[k].hadPromise # Unset) =>
                db.callers[k].on = db.callers[k].hadPromise
          /\ db.callers[k].hadConn # Unset =>
                (db.callers[k].result = "returned" /\ db.callers[k].got = db.callers[k].hadConn)

C24_Witness ==
    \E j, k, l \in Callers :
        /\ j < k /\ k < l
        /\ db.callers[j].started /\ ~db.callers[k].started
        /\ db.callers[k].on = db.callers[j].on
        /\ db.callers[k].result = "returned"
        /\ db.callers[l].hadConn # Unset /\ db.callers[l].result = "returned"

\* C25: when an attempt fails, every caller awaiting it gets the error and
\* the cached promise is cleared: a caller only ever awaits an attempt that
\* is in progress (or whose outcome is about to be delivered to it), and an
\* attempt in progress is always the cached promise, so no reset discards it.
C25_FailedAttemptCleared ==
    /\ \A k \in Callers :
          /\ (db.jobs = <<>> /\ db.callers[k].on # Unset
                 /\ db.attempts[db.callers[k].on] = "rejected") =>
                db.callers[k].result = "threw"
          /\ db.callers[k].result = "awaiting" =>
                (db.callers[k].on \in Connecting \/ k \in Queued)
    /\ (db.jobs = <<>> /\ db.promise # Unset) => db.attempts[db.promise] # "rejected"
    /\ \A a \in Connecting : db.promise = a

C25_Witness ==
    \E j, k, l \in Callers :
        /\ j < k /\ k < l
        /\ db.callers[j].on = db.callers[k].on
        /\ db.callers[j].result = "threw" /\ db.callers[k].result = "threw"
        /\ db.callers[l].started /\ db.callers[l].on \in Connecting
        /\ db.promise = db.callers[l].on

====
